---- MODULE Spec2Model ----
(***************************************************************************)
(* Mid-circuit measurement values of pennylane/measurements/mid_measure.py *)
(*                                                                         *)
(* A MidMeasureMP is a record; a MeasurementValue is a record of its       *)
(* measurements list and its processing_fn.  A processing_fn is a Python   *)
(* closure: it is modelled by the record of what the closure captured, and *)
(* Call evaluates it the way the closure body does.  Python bools are      *)
(* represented by their integer value (True = 1, False = 0).               *)
(***************************************************************************)
EXTENDS Integers, Sequences, FiniteSets, TLC

VARIABLES queue, mvs, ret, attrs, patchers, scope, frame, log

\* the state of capture/autograph/ag_primitives.py
patchvars == <<attrs, patchers>>
ifvars == <<scope, frame, log>>
agvars == <<patchvars, ifvars>>

vars == <<queue, mvs, ret, agvars>>

(* ------------------------------ bounds -------------------------------- *)
MaxRecords == 2      \* measure() calls that create a record
MaxMVs == 3          \* MeasurementValues kept in the pool
MaxCtorDeps == 1     \* length of a list handed to MeasurementValue(...)
MaxConds == 2        \* predicates handed to get_mcm_predicates
MaxTerminal == 1     \* terminal measurements of a scanned circuit
MaxIndex == 3        \* largest i tried with __getitem__
MaxListed == 2       \* values in the list a terminal measurement carries
MaxNesting == 2      \* with-blocks of Patchers open at once
MaxPatches == 2      \* triples handed to one Patcher

None == -1
\* malt's Undefined marker for a variable without a value
Undefined == -2
\* the variables an if statement modifies, in symbol_names order
symbol_names == <<"x", "y">>
Symbols == {"x", "y"}

Ids == 1..MaxRecords
\* the postselect values the spec admits: unset, the bit 0, the bit 1
ValidPostselects == {None, 0, 1}
\* what measure() is called with: a valid value, or 2 standing for any other
Postselects == ValidPostselects \cup {2}
Resets == {FALSE}
Bits == {0, 1}
\* the plain numbers used as right operands, and the outputs c of the
\* functions lambda *x: c handed to MeasurementValue(...) directly
PlainValues == {1}
CtorOutputs == {1}

\* what measure() is called with: one wire, or a list of two
WireInputs == {<<1>>, <<1, 2>>}

(* ------------------------------ helpers ------------------------------- *)
Range(s) == {s[k] : k \in DOMAIN s}

Truth(b) == IF b THEN 1 ELSE 0

RECURSIVE Pow2(_)
Pow2(n) == IF n = 0 THEN 1 ELSE 2 * Pow2(n - 1)

\* list.index(m): the first position holding a record equal to m
Index(list, m) == CHOOSE k \in DOMAIN list :
                     list[k] = m /\ \A j \in DOMAIN list : list[j] = m => k <= j

\* The digits of format(i, "b"): at least one digit, most significant first
RECURSIVE BinDigits(_)
BinDigits(i) == IF i < 2 THEN <<i>> ELSE Append(BinDigits(i \div 2), i % 2)

\* FormatBits with the least significant bit first
FormatBits_LsbFirst(i, width) ==
  LET d == BinDigits(i)
      f == IF Len(d) >= width THEN d
           ELSE [k \in 1..width |-> IF k <= width - Len(d) THEN 0 ELSE d[k - (width - Len(d))]]
  IN  [k \in DOMAIN f |-> f[Len(f) + 1 - k]]

\* tuple(int(b) for b in f"{i:0{width}b}"): zero-padded on the left to width,
\* never truncated
FormatBits(i, width) ==
  LET d == BinDigits(i)
  IN  IF Len(d) >= width THEN d
      ELSE [k \in 1..width |-> IF k <= width - Len(d) THEN 0 ELSE d[k - (width - Len(d))]]

(* --------------------------- MidMeasureMP ----------------------------- *)
MidMeasureMP(wires, reset, postselect, id) ==
  [cls |-> "MidMeasureMP", wires |-> wires, id |-> id, reset |-> reset,
   postselect |-> postselect]

\* the fingerprint that decides membership in a Python set
hash(m) == <<m.cls, m.wires, m.id>>

\* set(list): one element per hash
PySet(S) == {CHOOSE m \in S : hash(m) = h : h \in {hash(m) : m \in S}}

\* MeasurementProcess.map_wires on one record: a copy with the wires renamed
MapRecord(m, wire_map) ==
  [m EXCEPT !.wires = [k \in DOMAIN m.wires |->
                         IF m.wires[k] \in DOMAIN wire_map THEN wire_map[m.wires[k]]
                         ELSE m.wires[k]]]

(* ------------------------- MeasurementValue --------------------------- *)
MeasurementValue(measurements, processing_fn) ==
  [measurements |-> measurements, processing_fn |-> processing_fn]

Identity == [kind |-> "identity"]

logical_not(v) == Truth(v = 0)

BaseBin(op, a, b) ==
  CASE op = "and" -> Truth(a # 0 /\ b # 0)
    [] op = "or"  -> Truth(a # 0 \/ b # 0)
    [] op = "eq"  -> Truth(a = b)
    [] op = "sub" -> a - b
    [] op = "add" -> a + b

\* the functions handed to _apply
ApplyFn(fn, v) ==
  CASE fn.form = "not"   -> logical_not(v)
    [] fn.form = "left"  -> BaseBin(fn.op, v, fn.other)
    [] fn.form = "pair"  -> BaseBin(fn.op, v[1], v[2])

\* processing_fn(*x)
RECURSIVE Call(_, _)
Call(f, x) ==
  CASE f.kind = "identity" -> x[1]
    [] f.kind = "const" -> f.c
    [] f.kind = "apply" -> ApplyFn(f.fn, Call(f.self.processing_fn, x))
    [] f.kind = "merged" ->
         LET sub_args_1 == [k \in DOMAIN f.self.measurements |->
                              x[Index(f.merged_measurements, f.self.measurements[k])]]
             sub_args_2 == [k \in DOMAIN f.other.measurements |->
                              x[Index(f.merged_measurements, f.other.measurements[k])]]
         IN  <<Call(f.self.processing_fn, sub_args_1),
               Call(f.other.processing_fn, sub_args_2)>>

_apply(self, fn) ==
  MeasurementValue(self.measurements, [kind |-> "apply", fn |-> fn, self |-> self])

\* The iteration order of a Python set is unspecified.  An order is a ranking
\* of the records; list(S) lists S by increasing rank.
Orders(S) == {o \in [S -> 1..Cardinality(S)] : \A a, b \in S : a # b => o[a] # o[b]}

RECURSIVE ListOfSet(_, _)
ListOfSet(S, order) ==
  IF S = {} THEN <<>>
  ELSE LET m == CHOOSE a \in S : \A b \in S : order[a] <= order[b]
       IN  <<m>> \o ListOfSet(S \ {m}, order)

\* list.sort(key=lambda m: m.id): stable
RECURSIVE SortById(_)
SortById(list) ==
  IF Len(list) <= 1 THEN list
  ELSE LET rest == SortById(SubSeq(list, 1, Len(list) - 1))
           m == list[Len(list)]
           pos == Cardinality({k \in DOMAIN rest : rest[k].id <= m.id})
       IN  SubSeq(rest, 1, pos) \o <<m>> \o SubSeq(rest, pos + 1, Len(rest))

MergedSet(self, other) == PySet(Range(self.measurements) \cup Range(other.measurements))

_merge(self, other, order) ==
  LET merged_measurements == SortById(ListOfSet(MergedSet(self, other), order))
  IN  MeasurementValue(merged_measurements,
                       [kind |-> "merged", merged_measurements |-> merged_measurements,
                        self |-> self, other |-> other])

\* _transform_bin_op that merges the operands the other way round
_transform_bin_op_Swapped(self, base_bin, other, order) ==
  _apply(_merge(other, self, order), [form |-> "pair", op |-> base_bin, other |-> 0])

\* _transform_bin_op with a MeasurementValue as other
_transform_bin_op(self, base_bin, other, order) ==
  _apply(_merge(self, other, order), [form |-> "pair", op |-> base_bin, other |-> 0])

\* _transform_bin_op with a plain value as other
_transform_bin_scalar(self, base_bin, other) ==
  _apply(self, [form |-> "left", op |-> base_bin, other |-> other])

__invert__(self) == _apply(self, [form |-> "not", op |-> "not", other |-> 0])

map_wires(self, wire_map) ==
  MeasurementValue([k \in DOMAIN self.measurements |->
                      MapRecord(self.measurements[k], wire_map)],
                   self.processing_fn)

\* a value whose output is a pair (the raw result of _merge)
IsPair(mv) == mv.processing_fn.kind = "merged"

(* ----------------------------- enumeration ---------------------------- *)
\* items(): the list of what the generator yields
items(self) ==
  LET num_meas == Len(self.measurements)
  IN  [k \in 1..Pow2(num_meas) |->
         LET branch == FormatBits(k - 1, num_meas)
         IN  <<branch, Call(self.processing_fn, branch)>>]

\* branches: the dictionary from branch to output
branches(self) ==
  LET num_meas == Len(self.measurements)
  IN  [branch \in {FormatBits(i, num_meas) : i \in 0..(Pow2(num_meas) - 1)} |->
         Call(self.processing_fn, branch)]

__getitem__(self, i) ==
  Call(self.processing_fn, FormatBits(i, Len(self.measurements)))

\* postselected_items taking a postselect of 0 for unset (if m.postselect)
postselected_items_Truthy(self) ==
  LET n == Len(self.measurements)
      ps == {j \in 1..n : self.measurements[j].postselect \notin {None, 0}}
      num_non_ps == n - Cardinality(ps)
      \* ps.values(): the postselect values by increasing position
      ps_values == [k \in 1..Cardinality(ps) |->
                      LET pos == CHOOSE j \in ps : Cardinality({q \in ps : q <= j}) = k
                      IN  self.measurements[pos].postselect]
  IN  IF num_non_ps = 0
      THEN << <<(<<>>), Call(self.processing_fn, ps_values)>> >>
      ELSE [k \in 1..Pow2(num_non_ps) |->
              LET non_ps_branch == FormatBits(k - 1, num_non_ps)
                  \* next(non_ps_branch_iter) hands out the free bits left to right
                  full_branch == [j \in 1..n |->
                     IF j \in ps THEN self.measurements[j].postselect
                     ELSE non_ps_branch[Cardinality({q \in 1..j : q \notin ps})]]
              IN  <<non_ps_branch, Call(self.processing_fn, full_branch)>>]

\* postselected_items(): the list of what the generator yields
postselected_items(self) ==
  LET n == Len(self.measurements)
      ps == {j \in 1..n : self.measurements[j].postselect # None}
      num_non_ps == n - Cardinality(ps)
      \* ps.values(): the postselect values by increasing position
      ps_values == [k \in 1..Cardinality(ps) |->
                      LET pos == CHOOSE j \in ps : Cardinality({q \in ps : q <= j}) = k
                      IN  self.measurements[pos].postselect]
  IN  IF num_non_ps = 0
      THEN << <<(<<>>), Call(self.processing_fn, ps_values)>> >>
      ELSE [k \in 1..Pow2(num_non_ps) |->
              LET non_ps_branch == FormatBits(k - 1, num_non_ps)
                  \* next(non_ps_branch_iter) hands out the free bits left to right
                  full_branch == [j \in 1..n |->
                     IF j \in ps THEN self.measurements[j].postselect
                     ELSE non_ps_branch[Cardinality({q \in 1..j : q \notin ps})]]
              IN  <<non_ps_branch, Call(self.processing_fn, full_branch)>>]

(* --------------------------- concretize, bool ------------------------- *)
\* concretize reading the outcomes in reverse order of the dependencies
concretize_Reversed(self, measurements) ==
  IF \E k \in DOMAIN self.measurements : self.measurements[k] \notin DOMAIN measurements
  THEN [raised |-> "KeyError"]
  ELSE [raised |-> "",
        value |-> Call(self.processing_fn,
                       [k \in DOMAIN self.measurements |->
                          measurements[self.measurements[Len(self.measurements) + 1 - k]]])]

\* concretize falling back to 0 for a missing record (measurements.get(meas, 0))
concretize_Default(self, measurements) ==
  [raised |-> "",
   value |-> Call(self.processing_fn,
                  [k \in DOMAIN self.measurements |->
                     IF self.measurements[k] \in DOMAIN measurements
                     THEN measurements[self.measurements[k]] ELSE 0])]

\* concretize(measurements): measurements is a dict from records to bits
concretize(self, measurements) ==
  IF \E k \in DOMAIN self.measurements : self.measurements[k] \notin DOMAIN measurements
  THEN [raised |-> "KeyError"]
  ELSE [raised |-> "",
        value |-> Call(self.processing_fn,
                       [k \in DOMAIN self.measurements |-> measurements[self.measurements[k]]])]

\* __bool__ answering for a value that depends on no measurement
__bool___Constant(self) ==
  IF Len(self.measurements) = 0
  THEN [raised |-> "", value |-> Call(self.processing_fn, <<>>) # 0]
  ELSE [raised |-> "ValueError"]

__bool__(self) == [raised |-> "ValueError"]

(* ------------------------- get_mcm_predicates ------------------------- *)
__and__(self, other, order) == _transform_bin_op(self, "and", other, order)

\* McmLoop with the guard of a branch not restricted by the earlier predicates
RECURSIVE McmLoop_Unguarded(_, _, _, _, _)
McmLoop_Unguarded(conditions, k, new_conds, false_cond, order) ==
  IF k > Len(conditions) THEN Append(new_conds, false_cond)
  ELSE LET c == conditions[k]
       IN  McmLoop_Unguarded(conditions, k + 1,
                   Append(new_conds, c),
                   __and__(false_cond, __invert__(c), order),
                   order)

\* the loop over conditions[1:], from position k on
RECURSIVE McmLoop(_, _, _, _, _)
McmLoop(conditions, k, new_conds, false_cond, order) ==
  IF k > Len(conditions) THEN Append(new_conds, false_cond)
  ELSE LET c == conditions[k]
       IN  McmLoop(conditions, k + 1,
                   Append(new_conds, __and__(false_cond, c, order)),
                   __and__(false_cond, __invert__(c), order),
                   order)

get_mcm_predicates(conditions, order) ==
  McmLoop(conditions, 2, <<conditions[1]>>, __invert__(conditions[1]), order)

(* ---------------------- find_post_processed_mcms ---------------------- *)
\* the scan looking only at the first value of a list
RECURSIVE ScanMeasurements_FirstOfList(_, _, _)
ScanMeasurements_FirstOfList(measurements, k, post_processed_mcms) ==
  IF k > Len(measurements) THEN post_processed_mcms
  ELSE LET m == measurements[k]
           found == IF m.kind # "None" /\ Len(m.mv) > 0
                    THEN Range(m.mv[1].measurements)
                    ELSE {}
       IN  ScanMeasurements_FirstOfList(measurements, k + 1,
                                        PySet(post_processed_mcms \cup found))

\* a terminal measurement's mv: None, one MeasurementValue, or a list of them
RECURSIVE ScanMeasurements(_, _, _)
ScanMeasurements(measurements, k, post_processed_mcms) ==
  IF k > Len(measurements) THEN post_processed_mcms
  ELSE LET m == measurements[k]
           found == IF m.kind = "list"
                    THEN UNION {Range(m.mv[j].measurements) : j \in DOMAIN m.mv}
                    ELSE IF m.kind # "None"
                    THEN Range(m.mv[1].measurements)
                    ELSE {}
       IN  ScanMeasurements(measurements, k + 1, PySet(post_processed_mcms \cup found))

find_post_processed_mcms(circuit) ==
  ScanMeasurements(circuit.measurements, 1,
     PySet({op \in Range(circuit.operations) :
              op.cls = "MidMeasureMP" /\ op.postselect # None}))

(* ------------------------------ Patcher ------------------------------- *)
\* the attributes converted_call patches, as (obj, attr_name)
PatchKeys == {<<"ag_api", "_TRANSPILER">>, <<"ag_config", "CONVERSION_RULES">>}
\* the values handed in as the third element of a triple
Replacements == {"TRANSFORMER", "module_allowlist"}
Triples == {<<key[1], key[2], fn>> : key \in PatchKeys, fn \in Replacements}

\* Patcher(*patch_data)
Patcher(patch_data) == [backup |-> <<>>, patch_data |-> patch_data]

\* the loop of __enter__ from triple k on: [backup, attrs] after it
RECURSIVE EnterLoop(_, _, _, _)
EnterLoop(patch_data, k, backup, at) ==
  IF k > Len(patch_data) THEN [backup |-> backup, attrs |-> at]
  ELSE LET key == <<patch_data[k][1], patch_data[k][2]>>
           fn == patch_data[k][3]
       IN  EnterLoop(patch_data, k + 1, (key :> at[key]) @@ backup, [at EXCEPT ![key] = fn])

__enter__(self, at) ==
  LET done == EnterLoop(self.patch_data, 1, self.backup, at)
  IN  [self |-> [self EXCEPT !.backup = done.backup], attrs |-> done.attrs]

\* the loop of __exit__ from triple k on: the attributes after it
RECURSIVE ExitLoop(_, _, _, _)
ExitLoop(patch_data, k, backup, at) ==
  IF k > Len(patch_data) THEN at
  ELSE LET key == <<patch_data[k][1], patch_data[k][2]>>
       IN  ExitLoop(patch_data, k + 1, backup, [at EXCEPT ![key] = backup[key]])

__exit__(self, at) == ExitLoop(self.patch_data, 1, self.backup, at)

(* ------------------------------ if_stmt ------------------------------- *)
\* get_state(): the tuple of the tracked variables, in symbol_names order
get_state(sc) == [k \in DOMAIN symbol_names |-> sc[symbol_names[k]]]

\* set_state(values): the scope with every tracked variable assigned
set_state(values) ==
  [v \in Symbols |-> values[CHOOSE k \in DOMAIN symbol_names : symbol_names[k] = v]]

\* a branch function is the assignments its body makes: true_fn() or
\* false_fn() run in a scope
CallFn(fn, sc) == [v \in Symbols |-> IF v \in DOMAIN fn THEN fn[v] ELSE sc[v]]

\* the first position of results holding Undefined
FirstUndefined(results) ==
  CHOOSE k \in DOMAIN results :
    results[k] = Undefined /\ \A j \in DOMAIN results : results[j] = Undefined => k <= j

\* assert_results that lets Undefined results through
assert_results_Unchecked(results, var_names) ==
  IF Len(results) # Len(var_names) THEN [raised |-> "AssertionError", name |-> ""]
  ELSE [raised |-> "", name |-> ""]

assert_results(results, var_names) ==
  IF Len(results) # Len(var_names) THEN [raised |-> "AssertionError", name |-> ""]
  ELSE IF \E k \in DOMAIN results : results[k] = Undefined
       THEN [raised |-> "AutoGraphError", name |-> var_names[FirstUndefined(results)]]
       ELSE [raised |-> "", name |-> ""]

\* qml.cond: the sequences in which the two branch functions are run
CondOrders == {<<"true", "false">>, <<"false", "true">>}

\* what functional_cond() returns: the results of the branch pred selects
CondResults(pred, results) == results[IF pred THEN "true" ELSE "false"]

\* the values the statements of the converted function assign
TrueValue == 1
FalseValue == 2
OuterValue == 0
TrueFns == UNION {[S -> {TrueValue}] : S \in SUBSET Symbols}
FalseFns == UNION {[S -> {FalseValue}] : S \in SUBSET Symbols}

Event(call, value) == [call |-> call, value |-> value]

(* ------------------------------- state -------------------------------- *)
\* queue: the MidMeasureMP operations created so far, in creation order
\* mvs:   the MeasurementValues the program holds
\* ret:   the last call and what it returned or raised
\* attrs: the value of each patched attribute, by (obj, attr_name)
\* patchers: the with-blocks entered and not yet left, innermost last; each
\*        holds its Patcher and the attributes as they were before __enter__
\* scope: the variables of the converted function that get_state reads
\* frame: the locals and position of the running if_stmt
\* log:   the calls if_stmt and its branch functions have made, in order

Init ==
  /\ queue = <<>>
  /\ mvs = <<>>
  /\ ret = [op |-> "init"]
  /\ attrs = [key \in PatchKeys |-> "original"]
  /\ patchers = <<>>
  /\ scope = [v \in Symbols |-> Undefined]
  /\ frame = [pc |-> "idle"]
  /\ log = <<>>

UsedIds == {queue[k].id : k \in DOMAIN queue}

\* every record some held MeasurementValue depends on, and every queued one
KnownRecords == Range(queue) \cup UNION {Range(mvs[i].measurements) : i \in DOMAIN mvs}

RecordsOf(S) == UNION {Range(mv.measurements) : mv \in S}

Scalars == {i \in DOMAIN mvs : ~IsPair(mvs[i])}

\* duplicate-free lists over S of length at most n
ListsOver(S, n) ==
  UNION {{l \in [1..k -> S] : \A a, b \in 1..k : a # b => l[a] # l[b]} : k \in 0..n}

(* ------------------------ actions: construction ----------------------- *)
\* _measure_impl rejecting only lists of more than two wires
Measure_TwoWires(wires, reset, postselect) ==
  IF Len(wires) > 2
  THEN /\ ret' = [op |-> "measure", wires |-> wires, raised |-> "QuantumFunctionError"]
       /\ UNCHANGED <<queue, mvs, agvars>>
  ELSE /\ Len(queue) < MaxRecords
       /\ Len(mvs) < MaxMVs
       /\ \E measurement_id \in Ids \ UsedIds :
            LET mp == MidMeasureMP(wires, reset, postselect, measurement_id)
                mv == MeasurementValue(<<mp>>, Identity)
            IN  /\ queue' = Append(queue, mp)
                /\ mvs' = Append(mvs, mv)
                /\ ret' = [op |-> "measure", wires |-> wires, raised |-> "", value |-> mv]
                /\ UNCHANGED agvars

\* measure() with capture disabled: _measure_impl
Measure(wires, reset, postselect) ==
  IF Len(wires) > 1
  THEN /\ ret' = [op |-> "measure", wires |-> wires, raised |-> "QuantumFunctionError"]
       /\ UNCHANGED <<queue, mvs, agvars>>
  ELSE /\ Len(queue) < MaxRecords
       /\ Len(mvs) < MaxMVs
       /\ \E measurement_id \in Ids \ UsedIds :
            LET mp == MidMeasureMP(wires, reset, postselect, measurement_id)
                mv == MeasurementValue(<<mp>>, Identity)
            IN  /\ queue' = Append(queue, mp)
                /\ mvs' = Append(mvs, mv)
                /\ ret' = [op |-> "measure", wires |-> wires, raised |-> "", value |-> mv]
                /\ UNCHANGED agvars

\* MeasurementValue(measurements, lambda *x: c) called directly
Construct(measurements, c) ==
  /\ Len(mvs) < MaxMVs
  /\ mvs' = Append(mvs, MeasurementValue(measurements, [kind |-> "const", c |-> c]))
  /\ ret' = [op |-> "construct", raised |-> ""]
  /\ UNCHANGED <<queue, agvars>>

\* __invert__ that rewrites its operand in place as well
Invert_InPlace(i) ==
  /\ Len(mvs) < MaxMVs
  /\ mvs' = Append([mvs EXCEPT ![i] = __invert__(mvs[i])], __invert__(mvs[i]))
  /\ ret' = [op |-> "invert", self |-> i, raised |-> ""]
  /\ UNCHANGED <<queue, agvars>>

Invert(i) ==
  /\ Len(mvs) < MaxMVs
  /\ mvs' = Append(mvs, __invert__(mvs[i]))
  /\ ret' = [op |-> "invert", self |-> i, raised |-> ""]
  /\ UNCHANGED <<queue, agvars>>

\* a binary operator with a plain number as the right operand
BinScalar(i, base_bin, other) ==
  /\ Len(mvs) < MaxMVs
  /\ mvs' = Append(mvs, _transform_bin_scalar(mvs[i], base_bin, other))
  /\ ret' = [op |-> "bin_scalar", self |-> i, base_bin |-> base_bin, other |-> other,
             raised |-> ""]
  /\ UNCHANGED <<queue, agvars>>

\* a binary operator with a MeasurementValue as the right operand
BinOp(i, base_bin, j, order) ==
  /\ Len(mvs) < MaxMVs
  /\ mvs' = Append(mvs, _transform_bin_op(mvs[i], base_bin, mvs[j], order))
  /\ ret' = [op |-> "bin_op", self |-> i, other |-> j, base_bin |-> base_bin, raised |-> ""]
  /\ UNCHANGED <<queue, agvars>>

Merge(i, j, order) ==
  /\ Len(mvs) < MaxMVs
  /\ mvs' = Append(mvs, _merge(mvs[i], mvs[j], order))
  /\ ret' = [op |-> "merge", self |-> i, other |-> j, raised |-> ""]
  /\ UNCHANGED <<queue, agvars>>

MapWires(i, wire_map) ==
  /\ Len(mvs) < MaxMVs
  /\ mvs' = Append(mvs, map_wires(mvs[i], wire_map))
  /\ ret' = [op |-> "map_wires", self |-> i, raised |-> ""]
  /\ UNCHANGED <<queue, agvars>>

(* -------------------------- actions: queries -------------------------- *)
Items(i) ==
  /\ ret' = [op |-> "items", self |-> i, raised |-> "", value |-> items(mvs[i])]
  /\ UNCHANGED <<queue, mvs, agvars>>

Branches(i) ==
  /\ ret' = [op |-> "branches", self |-> i, raised |-> "", value |-> branches(mvs[i])]
  /\ UNCHANGED <<queue, mvs, agvars>>

GetItem(i, k) ==
  /\ k < Pow2(Len(mvs[i].measurements))
  /\ ret' = [op |-> "getitem", self |-> i, i |-> k, raised |-> "",
             value |-> __getitem__(mvs[i], k)]
  /\ UNCHANGED <<queue, mvs, agvars>>

PostselectedItems(i) ==
  /\ ret' = [op |-> "postselected_items", self |-> i, raised |-> "",
             value |-> postselected_items(mvs[i])]
  /\ UNCHANGED <<queue, mvs, agvars>>

Concretize(i, measurements) ==
  /\ ret' = [op |-> "concretize", self |-> i, measurements |-> measurements]
              @@ concretize(mvs[i], measurements)
  /\ UNCHANGED <<queue, mvs, agvars>>

Bool(i) ==
  /\ ret' = [op |-> "bool", self |-> i] @@ __bool__(mvs[i])
  /\ UNCHANGED <<queue, mvs, agvars>>

GetMcmPredicates(conds, order) ==
  /\ ret' = [op |-> "get_mcm_predicates", conditions |-> conds, raised |-> "",
             value |-> get_mcm_predicates([k \in DOMAIN conds |-> mvs[conds[k]]], order)]
  /\ UNCHANGED <<queue, mvs, agvars>>

\* a terminal measurement over held values: mv is None, mvs[l[1]], or the list of mvs[l[k]]
Terminal(kind, l) == [kind |-> kind, mv |-> [k \in DOMAIN l |-> mvs[l[k]]]]

Terminals ==
  {Terminal("None", <<>>)}
    \cup {Terminal("MeasurementValue", <<i>>) : i \in DOMAIN mvs}
    \cup {Terminal("list", l) : l \in ListsOver(DOMAIN mvs, MaxListed)}

Gate == [cls |-> "Hadamard", wires |-> <<1>>, id |-> 0, reset |-> FALSE, postselect |-> None]

FindPostProcessedMcms(operations, measurements) ==
  LET circuit == [operations |-> operations, measurements |-> measurements]
  IN  /\ ret' = [op |-> "find_post_processed_mcms", circuit |-> circuit, raised |-> "",
                 value |-> find_post_processed_mcms(circuit)]
      /\ UNCHANGED <<queue, mvs, agvars>>

(* -------------------------- actions: Patcher -------------------------- *)
\* with Patcher(*patch_data): up to the start of the body
With(patch_data) ==
  /\ Len(patchers) < MaxNesting
  /\ LET entered == __enter__(Patcher(patch_data), attrs)
     IN  /\ attrs' = entered.attrs
         /\ patchers' = Append(patchers, [patcher |-> entered.self, before |-> attrs])
         /\ ret' = [op |-> "__enter__", patch_data |-> patch_data, raised |-> ""]
  /\ UNCHANGED <<queue, mvs, ifvars>>

\* the end of the innermost with-block, its body having returned or raised
Leave(raised) ==
  /\ patchers # <<>>
  /\ LET top == patchers[Len(patchers)]
     IN  /\ attrs' = __exit__(top.patcher, attrs)
         /\ ret' = [op |-> "__exit__", patch_data |-> top.patcher.patch_data,
                    before |-> top.before, raised |-> IF raised THEN "Exception" ELSE ""]
  /\ patchers' = SubSeq(patchers, 1, Len(patchers) - 1)
  /\ UNCHANGED <<queue, mvs, ifvars>>

(* -------------------------- actions: if_stmt -------------------------- *)
Running == frame.pc \in {"cond", "fn", "results"}

\* an assignment of the converted function outside the if statement; the
\* frame of an if_stmt that has ended is gone
Assign(v) ==
  /\ ~Running
  /\ scope' = [scope EXCEPT ![v] = OuterValue]
  /\ frame' = [pc |-> "idle"]
  /\ log' = <<>>
  /\ ret' = [op |-> "assign", name |-> v, raised |-> ""]
  /\ UNCHANGED <<queue, mvs, patchvars>>

\* if_stmt up to the call of functional_cond: init_state = get_state()
if_stmt(pred, true_fn, false_fn, order) ==
  /\ ~Running
  /\ frame' = [pc |-> "cond", pred |-> pred, true_fn |-> true_fn, false_fn |-> false_fn,
               init_state |-> get_state(scope), pending |-> order, results |-> <<>>]
  /\ log' = <<Event("get_state", get_state(scope))>>
  /\ ret' = [op |-> "if_stmt", raised |-> "", returned |-> FALSE]
  /\ UNCHANGED <<queue, mvs, patchvars, scope>>

\* a branch of functional_cond that goes on without set_state(init_state)
BranchSetState_Skipped ==
  /\ frame.pc = "cond"
  /\ frame.pending # <<>>
  /\ frame' = [frame EXCEPT !.pc = "fn"]
  /\ UNCHANGED <<queue, mvs, ret, patchvars, scope, log>>

\* the next branch of functional_cond: set_state(init_state)
BranchSetState ==
  /\ frame.pc = "cond"
  /\ frame.pending # <<>>
  /\ scope' = set_state(frame.init_state)
  /\ log' = Append(log, Event("set_state", frame.init_state))
  /\ frame' = [frame EXCEPT !.pc = "fn"]
  /\ UNCHANGED <<queue, mvs, ret, patchvars>>

\* true_fn() or false_fn()
BranchFn ==
  /\ frame.pc = "fn"
  /\ LET branch == Head(frame.pending)
     IN  /\ scope' = CallFn(IF branch = "true" THEN frame.true_fn ELSE frame.false_fn, scope)
         /\ log' = Append(log, Event(IF branch = "true" THEN "true_fn" ELSE "false_fn", <<>>))
  /\ frame' = [frame EXCEPT !.pc = "results"]
  /\ UNCHANGED <<queue, mvs, ret, patchvars>>

\* results = get_state(); return assert_results(results, symbol_names)
BranchResults ==
  /\ frame.pc = "results"
  /\ LET branch == Head(frame.pending)
         results == get_state(scope)
         checked == assert_results(results, symbol_names)
     IN  /\ log' = Append(log, Event("get_state", results))
         /\ IF checked.raised # ""
            THEN /\ frame' = [frame EXCEPT !.pc = "raised"]
                 /\ ret' = [op |-> "if_stmt", raised |-> checked.raised,
                            name |-> checked.name, branch |-> branch]
            ELSE /\ frame' = [frame EXCEPT !.pc = "cond",
                                           !.pending = Tail(frame.pending),
                                           !.results = (branch :> results) @@ frame.results]
                 /\ UNCHANGED ret
  /\ UNCHANGED <<queue, mvs, patchvars, scope>>

\* results = functional_cond(); set_state(results)
SetResults ==
  /\ frame.pc = "cond"
  /\ frame.pending = <<>>
  /\ LET results == CondResults(frame.pred, frame.results)
     IN  /\ scope' = set_state(results)
         /\ log' = Append(log, Event("set_state", results))
         /\ ret' = [op |-> "if_stmt", raised |-> "", returned |-> TRUE]
  /\ frame' = [frame EXCEPT !.pc = "done"]
  /\ UNCHANGED <<queue, mvs, patchvars>>

(* --------------------------- specifications --------------------------- *)
BinOps == {"and", "sub"}
WireMaps == {[w \in {1} |-> 2]}

Build ==
  \/ \E wires \in WireInputs, reset \in Resets, postselect \in Postselects :
       Measure(wires, reset, postselect)
  \/ \E measurements \in ListsOver(KnownRecords, MaxCtorDeps), c \in CtorOutputs :
       Construct(measurements, c)
  \/ \E i \in Scalars : Invert(i)
  \/ \E i \in Scalars, base_bin \in BinOps, other \in PlainValues : BinScalar(i, base_bin, other)
  \/ \E i, j \in Scalars, base_bin \in BinOps :
       \E order \in Orders(RecordsOf({mvs[i], mvs[j]})) : BinOp(i, base_bin, j, order)
  \/ \E i, j \in DOMAIN mvs :
       \E order \in Orders(RecordsOf({mvs[i], mvs[j]})) : Merge(i, j, order)
  \/ \E i \in DOMAIN mvs, wire_map \in WireMaps : MapWires(i, wire_map)

Enumerate ==
  \/ \E i \in DOMAIN mvs : Items(i)
  \/ \E i \in DOMAIN mvs : Branches(i)
  \/ \E i \in DOMAIN mvs, k \in 0..MaxIndex : GetItem(i, k)
  \/ \E i \in DOMAIN mvs : PostselectedItems(i)

Evaluate ==
  \/ \E i \in DOMAIN mvs :
       \E D \in SUBSET RecordsOf(Range(mvs)) : \E measurements \in [D -> Bits] :
         Concretize(i, measurements)
  \/ \E i \in DOMAIN mvs : Bool(i)

Predicates ==
  \E conds \in UNION {[1..n -> Scalars] : n \in 1..MaxConds} :
    \E order \in Orders(RecordsOf({mvs[conds[k]] : k \in DOMAIN conds})) :
      GetMcmPredicates(conds, order)

\* the circuit's operations: a gate, then any of the queued measurements in
\* queue order
Scan ==
  \E S \in SUBSET DOMAIN queue :
    \E measurements \in UNION {[1..n -> Terminals] : n \in 0..MaxTerminal} :
      FindPostProcessedMcms(
        <<Gate>> \o ListOfSet({queue[k] : k \in S}, [m \in Range(queue) |-> Index(queue, m)]),
        measurements)

PatchLists == UNION {[1..n -> Triples] : n \in 1..MaxPatches}

Patching ==
  \/ \E patch_data \in PatchLists : With(patch_data)
  \/ \E raised \in BOOLEAN : Leave(raised)

Conditional ==
  \/ \E v \in Symbols : Assign(v)
  \/ \E pred \in BOOLEAN, true_fn \in TrueFns, false_fn \in FalseFns, order \in CondOrders :
       if_stmt(pred, true_fn, false_fn, order)
  \/ BranchSetState
  \/ BranchFn
  \/ BranchResults
  \/ SetResults

Next == Build \/ Enumerate \/ Evaluate \/ Predicates \/ Scan \/ Patching \/ Conditional

Spec == Init /\ [][Next]_vars
SpecBuild == Init /\ [][Build]_vars
SpecEnum == Init /\ [][Build \/ Enumerate]_vars
SpecEval == Init /\ [][Build \/ Evaluate]_vars
SpecPred == Init /\ [][Build \/ Predicates]_vars
SpecScan == Init /\ [][Build \/ Scan]_vars
SpecPatch == Init /\ [][Patching]_vars
SpecCond == Init /\ [][Conditional]_vars

(* ------------------------------- claims ------------------------------- *)
\* the value of mv under an assignment of bits to records
ValueAt(mv, outcome) ==
  Call(mv.processing_fn, [k \in DOMAIN mv.measurements |-> outcome[mv.measurements[k]]])

IsTrue(v) == v # 0

\* C1: get_mcm_predicates on p_0..p_k returns k+2 guards; under every assignment
\* of bits to the measurements, guard i is true exactly when p_0..p_{i-1} are
\* false and p_i is true, the last guard exactly when every p_j is false, and
\* exactly one guard is true.
C1_ExclusiveGuards ==
  ret.op = "get_mcm_predicates" =>
    LET p == [k \in DOMAIN ret.conditions |-> mvs[ret.conditions[k]]]
        q == ret.value
        n == Len(p)
    IN  /\ Len(q) = n + 1
        /\ \A outcome \in [RecordsOf(Range(p)) -> Bits] :
             /\ \A i \in 1..n :
                  IsTrue(ValueAt(q[i], outcome)) <=>
                    /\ \A j \in 1..(i - 1) : ~IsTrue(ValueAt(p[j], outcome))
                    /\ IsTrue(ValueAt(p[i], outcome))
             /\ IsTrue(ValueAt(q[n + 1], outcome)) <=>
                  \A j \in 1..n : ~IsTrue(ValueAt(p[j], outcome))
             /\ Cardinality({i \in 1..(n + 1) : IsTrue(ValueAt(q[i], outcome))}) = 1

\* two different predicates that share a measurement and can both be true
C1_Witness ==
  /\ ret.op = "get_mcm_predicates"
  /\ Len(ret.conditions) = 2
  /\ LET p1 == mvs[ret.conditions[1]]
         p2 == mvs[ret.conditions[2]]
     IN  /\ p1 # p2
         /\ Len(p2.measurements) = 2
         /\ Range(p1.measurements) \cap Range(p2.measurements) # {}
         /\ \E outcome \in [RecordsOf({p1, p2}) -> Bits] :
              IsTrue(ValueAt(p1, outcome)) /\ IsTrue(ValueAt(p2, outcome))

\* C2: the dependency list of _merge's result is the union of the operands'
\* lists without duplicates, sorted by record id; so merging A with B and then
\* with C gives the same list as merging B with C and then with A, and merging
\* A with B the same list as merging B with A, whatever order the sets are
\* iterated in.
C2_MergeOrderIndependent ==
  \A i, j, k \in DOMAIN mvs :
    LET A == mvs[i]
        B == mvs[j]
        C == mvs[k]
    IN  \A o1, o2 \in Orders(RecordsOf({A, B, C})) :
          LET AB == _merge(A, B, o1).measurements
          IN  /\ Range(AB) = Range(A.measurements) \cup Range(B.measurements)
              /\ \A a, b \in DOMAIN AB : a < b => AB[a] # AB[b] /\ AB[a].id <= AB[b].id
              /\ AB = _merge(B, A, o2).measurements
              /\ _merge(_merge(A, B, o1), C, o1).measurements
                   = _merge(_merge(B, C, o2), A, o2).measurements

\* C3: the binary combination of A and B evaluates, on every bit assignment to
\* the merged dependencies, to op(a, b), a being A's processing_fn on the bits
\* of A's dependencies in A's order and b likewise for B; A is the left operand.
C3_BinOpEvaluates ==
  \A i, j \in Scalars : \A base_bin \in BinOps :
    LET A == mvs[i]
        B == mvs[j]
    IN  \A order \in Orders(RecordsOf({A, B})) :
          LET r == _transform_bin_op(A, base_bin, B, order)
              merged == r.measurements
          IN  /\ Range(merged) = Range(A.measurements) \cup Range(B.measurements)
              /\ \A x \in [DOMAIN merged -> Bits] :
                   LET outcome == [m \in Range(merged) |->
                                     x[CHOOSE k \in DOMAIN merged : merged[k] = m]]
                   IN  (\A k \in DOMAIN merged : outcome[merged[k]] = x[k]) =>
                         Call(r.processing_fn, x)
                           = BaseBin(base_bin, ValueAt(A, outcome), ValueAt(B, outcome))

\* a subtraction of two different values over the same two measurements was built
C3_Witness ==
  /\ ret.op = "bin_op"
  /\ ret.base_bin = "sub"
  /\ LET A == mvs[ret.self]
         B == mvs[ret.other]
         r == mvs[Len(mvs)]
     IN  /\ A # B
         /\ Range(A.measurements) \cap Range(B.measurements) # {}
         /\ \E x \in [DOMAIN r.measurements -> Bits] : Call(r.processing_fn, x) = 1

NBits(i, n) == [j \in 1..n |-> (i \div Pow2(n - j)) % 2]

\* entry k of items() is the n-bit representation of k-1 with the output there,
\* and the entries cover every n-bit assignment once
ItemsAreNBit(mv, value) ==
  LET n == Len(mv.measurements)
  IN  /\ Len(value) = Pow2(n)
      /\ \A k \in DOMAIN value :
           /\ Len(value[k][1]) = n
           /\ value[k][1] = NBits(k - 1, n)
           /\ value[k][2] = Call(mv.processing_fn, NBits(k - 1, n))
      /\ {value[k][1] : k \in DOMAIN value} = [1..n -> Bits]
      /\ \A a, b \in DOMAIN value : a # b => value[a][1] # value[b][1]

\* branches and __getitem__ return what items() pairs with the same branch
BranchesAgree ==
  /\ ret.op = "branches" =>
       LET it == items(mvs[ret.self])
       IN  /\ DOMAIN ret.value = {it[k][1] : k \in DOMAIN it}
           /\ \A k \in DOMAIN it : ret.value[it[k][1]] = it[k][2]
  /\ ret.op = "getitem" => ret.value = items(mvs[ret.self])[ret.i + 1][2]

C5_PostselectedItems ==
  ret.op = "postselected_items" =>
    LET mv == mvs[ret.self]
        n == Len(mv.measurements)
        P == {j \in 1..n : mv.measurements[j].postselect \in Bits}
        free == (1..n) \ P
        p == Cardinality(P)
        Full(b) == [j \in 1..n |->
                      IF j \in P THEN mv.measurements[j].postselect
                      ELSE b[Cardinality({q \in free : q <= j})]]
    IN  (\A j \in free : mv.measurements[j].postselect = None) =>
        /\ Len(ret.value) = Pow2(n - p)
        /\ \A k \in DOMAIN ret.value :
             /\ ret.value[k][1] = NBits(k - 1, n - p)
             /\ ret.value[k][2] = Call(mv.processing_fn, Full(NBits(k - 1, n - p)))
        /\ p = n =>
             ret.value = << <<(<<>>), Call(mv.processing_fn,
                                          [j \in 1..n |-> mv.measurements[j].postselect])>> >>

\* two dependencies, the second postselected on 0, and an output that depends
\* on the free bit
C5_Witness ==
  /\ ret.op = "postselected_items"
  /\ LET mv == mvs[ret.self]
     IN  /\ Len(mv.measurements) = 2
         /\ mv.measurements[1].postselect = None
         /\ mv.measurements[2].postselect = 0
  /\ Len(ret.value) = 2
  /\ ret.value[1][2] # ret.value[2][2]

\* C6: for every held value and every entry (branch, output) of its items(),
\* concretize with a mapping that sends the j-th dependency to branch[j]
\* returns that output.
C6_ConcretizeInvertsItems ==
  \A i \in DOMAIN mvs :
    LET mv == mvs[i]
        it == items(mv)
    IN  \A k \in DOMAIN it :
          \A outcomes \in [Range(mv.measurements) -> Bits] :
            (\A j \in DOMAIN mv.measurements : outcomes[mv.measurements[j]] = it[k][1][j])
              => concretize(mv, outcomes) = [raised |-> "", value |-> it[k][2]]

\* concretize was called on a value over two measurements with the bits (0, 1)
\* and returned the output items() pairs with (0, 1), which is not that of (1, 0)
C6_Witness ==
  /\ ret.op = "concretize"
  /\ ret.raised = ""
  /\ LET mv == mvs[ret.self]
         it == items(mv)
     IN  /\ Len(mv.measurements) = 2
         /\ DOMAIN ret.measurements = Range(mv.measurements)
         /\ ret.measurements[mv.measurements[1]] = 0
         /\ ret.measurements[mv.measurements[2]] = 1
         /\ ret.value = it[2][2]
         /\ it[2][2] # it[3][2]

\* C8: concretize raises KeyError whenever the mapping lacks one of the value's
\* dependencies, whichever one and whatever else the mapping holds; it returns
\* a value only when every dependency is present; a failed call changes nothing.
C8_ConcretizeLookup ==
  /\ [](ret.op = "concretize" =>
          LET deps == Range(mvs[ret.self].measurements)
          IN  /\ ret.raised = "KeyError" <=> ~(deps \subseteq DOMAIN ret.measurements)
              /\ ret.raised = "" <=> deps \subseteq DOMAIN ret.measurements
              /\ "value" \in DOMAIN ret <=> deps \subseteq DOMAIN ret.measurements)
  /\ [][(ret'.op = "concretize" /\ ret'.raised = "KeyError") => UNCHANGED <<queue, mvs, agvars>>]_vars

\* the mapping holds the first of two dependencies and lacks the second
C8_Witness ==
  /\ ret.op = "concretize"
  /\ ret.raised = "KeyError"
  /\ LET mv == mvs[ret.self]
     IN  /\ Len(mv.measurements) = 2
         /\ mv.measurements[1] \in DOMAIN ret.measurements
         /\ mv.measurements[2] \notin DOMAIN ret.measurements

\* C9: converting a MeasurementValue to a truth value always raises; no truth
\* value is returned, whatever the dependencies and the processing_fn.
C9_BoolRaises ==
  ret.op = "bool" => ret.raised = "ValueError" /\ "value" \notin DOMAIN ret

\* bool() was tried on a value without dependencies, on a negation and on a
\* binary combination
C9_Witness ==
  /\ ret.op = "bool"
  /\ \E i \in DOMAIN mvs : Len(mvs[i].measurements) = 0
  /\ LET f == mvs[ret.self].processing_fn
     IN  f.kind = "apply" /\ f.fn.form = "pair"

\* the records the values carried by the terminal measurements depend on
TerminalDeps(circuit) ==
  UNION {RecordsOf(Range(circuit.measurements[k].mv)) : k \in DOMAIN circuit.measurements}

\* C7: find_post_processed_mcms returns exactly the records that are
\* mid-circuit measurement operations of the circuit with postselect set, or
\* dependencies of a value carried by a terminal measurement (single value or
\* list); an operation that is neither is not returned.
C7_PostProcessedMcms ==
  ret.op = "find_post_processed_mcms" =>
    LET circuit == ret.circuit
        ops == Range(circuit.operations)
    IN  /\ \A r \in ret.value \cup ops \cup KnownRecords :
             r \in ret.value <=>
               \/ r \in ops /\ r.cls = "MidMeasureMP" /\ r.postselect # None
               \/ r \in TerminalDeps(circuit)
        /\ \A r \in ops :
             (r.cls # "MidMeasureMP" \/ r.postselect = None) /\ r \notin TerminalDeps(circuit)
               => r \notin ret.value

\* a terminal measurement carrying a list of two values; the result holds a
\* dependency of the second value only, a postselected operation, and leaves
\* out a measurement of the circuit that is neither
C7_Witness ==
  /\ ret.op = "find_post_processed_mcms"
  /\ Len(ret.circuit.measurements) = 1
  /\ LET m == ret.circuit.measurements[1]
         ops == Range(ret.circuit.operations)
     IN  /\ m.kind = "list"
         /\ Len(m.mv) = 2
         /\ \E r \in ret.value : r \in Range(m.mv[2].measurements)
                                  /\ r \notin Range(m.mv[1].measurements)
                                  /\ r.postselect = None
         /\ \E r \in ops \cap ret.value : r.postselect # None
         /\ \E r \in ops : r.cls = "MidMeasureMP" /\ r \notin ret.value

\* C11: no record with a postselect value other than unset, 0 or 1 is ever
\* created: measure() with such a value raises instead of building the record.
C11_NoInvalidPostselect ==
  /\ \A m \in KnownRecords : m.postselect \in ValidPostselects
  /\ (ret.op = "measure" /\ ret.raised = "") =>
       ret.value.measurements[1].postselect \in ValidPostselects

\* C13: no held MeasurementValue has two dependencies with the same id: the
\* list _merge builds carries every id of its operands exactly once, also when
\* one operand holds a record and the other its wire-remapped copy.
C13_OneDependencyPerId ==
  \A i \in DOMAIN mvs :
    \A a, b \in DOMAIN mvs[i].measurements :
      a # b => mvs[i].measurements[a].id # mvs[i].measurements[b].id

\* every assignment of bits to the dependencies of mv, in list order
Assignments(mv) == [DOMAIN mv.measurements -> Bits]

\* the function a unary step handed to _apply, read off the call
UnaryFn(call, v) ==
  IF call.op = "invert" THEN logical_not(v) ELSE BaseBin(call.base_bin, v, call.other)

\* C15: composition never modifies its operands: across every step each held
\* MeasurementValue keeps its dependency list and its output on every bit
\* assignment; and the value a unary apply returns has the operand's
\* dependency list and, on every assignment, f of the operand's output.
C15_OperandsUnchanged ==
  [][/\ \A i \in DOMAIN mvs :
          /\ i \in DOMAIN mvs'
          /\ mvs'[i].measurements = mvs[i].measurements
          /\ \A x \in Assignments(mvs[i]) :
               Call(mvs'[i].processing_fn, x) = Call(mvs[i].processing_fn, x)
     /\ (ret'.op \in {"invert", "bin_scalar"} /\ Len(mvs') = Len(mvs) + 1) =>
          LET self == mvs[ret'.self]
              new == mvs'[Len(mvs')]
          IN  /\ new.measurements = self.measurements
              /\ \A x \in Assignments(self) :
                   Call(new.processing_fn, x) = UnaryFn(ret', Call(self.processing_fn, x))]_vars

\* a unary apply has just been taken on the result of a binary combination
C15_Witness ==
  /\ ret.op = "invert"
  /\ Len(mvs) = 3
  /\ mvs[ret.self].processing_fn.kind = "apply"
  /\ mvs[ret.self].processing_fn.fn.form = "pair"
  /\ mvs[3] = __invert__(mvs[ret.self])

\* the attributes a list of triples names
KeysOf(patch_data) == {<<patch_data[k][1], patch_data[k][2]>> : k \in DOMAIN patch_data}

\* the last value a list of triples hands in for an attribute
LastReplacement(patch_data, key) ==
  LET named == {k \in DOMAIN patch_data : <<patch_data[k][1], patch_data[k][2]>> = key}
  IN  patch_data[CHOOSE k \in named : \A j \in named : j <= k][3]

\* C16: when a with-block of a Patcher has been left, by return or by an
\* exception, every attribute its triples name holds the value it had just
\* before __enter__; when the block has just been entered, every such
\* attribute holds the replacement value.
C16_PatcherRestores ==
  /\ ret.op = "__exit__" =>
       \A key \in KeysOf(ret.patch_data) : attrs[key] = ret.before[key]
  /\ ret.op = "__enter__" =>
       \A key \in KeysOf(ret.patch_data) : attrs[key] = LastReplacement(ret.patch_data, key)

\* the scope a branch leaves when it is run from the snapshot
Expected(branch) ==
  CallFn(IF branch = "true" THEN frame.true_fn ELSE frame.false_fn,
         set_state(frame.init_state))

LeftUndefined(branch) == {v \in Symbols : Expected(branch)[v] = Undefined}

OtherBranch(branch) == IF branch = "true" THEN "false" ELSE "true"

\* the variables a branch leaves undefined and the other branch defines
Mismatch(branch) == LeftUndefined(branch) \ LeftUndefined(OtherBranch(branch))

\* the branches whose state has been read back
ReadBack ==
  DOMAIN frame.results \cup (IF frame.pc = "raised" THEN {Head(frame.pending)} ELSE {})

FnCalls == {"true_fn", "false_fn"}

\* C12 as stated: once the state read back after a branch holds an undefined
\* variable that the other branch defines, if_stmt has raised an
\* AutoGraphError naming a variable that the branch left undefined and the
\* other branch defines.
C12_NamesMismatch ==
  frame.pc # "idle" =>
    \A branch \in ReadBack :
      Mismatch(branch) # {} =>
        /\ frame.pc = "raised"
        /\ ret.op = "if_stmt" /\ ret.raised = "AutoGraphError" /\ ret.branch = branch
        /\ ret.name \in Mismatch(branch)

\* C12 amended: once the state read back after a branch holds an undefined
\* variable that the other branch defines, if_stmt has raised an
\* AutoGraphError for that branch naming the first variable in symbol_names
\* order that the branch left undefined, and no set_state with the
\* conditional's results has been made; when both branches leave every
\* tracked variable defined, no such error is raised.
C12_DefinednessError ==
  frame.pc # "idle" =>
    /\ \A branch \in ReadBack :
         Mismatch(branch) # {} =>
           /\ frame.pc = "raised"
           /\ ret.op = "if_stmt" /\ ret.raised = "AutoGraphError" /\ ret.branch = branch
           /\ ret.name \in LeftUndefined(branch)
           /\ \A k \in DOMAIN symbol_names :
                symbol_names[k] \in LeftUndefined(branch) =>
                  \E j \in 1..k : symbol_names[j] = ret.name
           /\ log[Len(log)].call = "get_state"
           /\ \A k \in DOMAIN log :
                log[k].call = "set_state" =>
                  k < Len(log) /\ log[k + 1].call \in FnCalls
           /\ scope = Expected(branch)
    /\ (LeftUndefined("true") = {} /\ LeftUndefined("false") = {}) =>
         frame.pc # "raised"

\* the second branch run has left undefined a variable the first one defined,
\* and if_stmt has raised
C12_Witness ==
  /\ frame.pc = "raised"
  /\ ret.branch = "false"
  /\ "true" \in DOMAIN frame.results
  /\ Mismatch("false") # {}
  /\ frame.init_state # get_state(scope)

\* C14: the snapshot is the one get_state made before either branch; every
\* call of true_fn and of false_fn comes right after set_state(init_state), so
\* each branch starts from the snapshot and its results do not depend on which
\* branch ran first; and when if_stmt has returned, its last call is the one
\* set_state with the results of the conditional, every other set_state being
\* the restore right before a branch.
C14_SnapshotRestored ==
  frame.pc # "idle" =>
    /\ log[1] = Event("get_state", frame.init_state)
    /\ \A k \in DOMAIN log :
         /\ log[k].call \in FnCalls =>
              k > 1 /\ log[k - 1] = Event("set_state", frame.init_state)
         /\ (log[k].call = "get_state" /\ k > 1) => log[k - 1].call \in FnCalls
    /\ frame.pc = "fn" => get_state(scope) = frame.init_state
    /\ \A branch \in DOMAIN frame.results :
         frame.results[branch] = get_state(Expected(branch))
    /\ frame.pc = "done" =>
         /\ log[Len(log)] = Event("set_state", CondResults(frame.pred, frame.results))
         /\ scope = set_state(CondResults(frame.pred, frame.results))
         /\ \A k \in 1..(Len(log) - 1) :
              log[k].call = "set_state" => log[k + 1].call \in FnCalls
         /\ \A call \in FnCalls : Cardinality({k \in DOMAIN log : log[k].call = call}) = 1

\* if_stmt has returned after running false_fn first, both branches having
\* assigned a variable that had a value before
C14_Witness ==
  /\ frame.pc = "done"
  /\ log[3].call = "false_fn"
  /\ log[6].call = "true_fn"
  /\ \E v \in DOMAIN frame.true_fn \cap DOMAIN frame.false_fn :
       /\ set_state(frame.init_state)[v] = OuterValue
       /\ scope[v] = IF frame.pred THEN TrueValue ELSE FalseValue

====
